---------------------------- MODULE Spec2Model ----------------------------
(***************************************************************************)
(* Model of lambda_function.py: the AZ health check Lambda.                *)
(*                                                                         *)
(*   lambda_handler -> check_az_status -> get_az_health_events             *)
(*                  -> analyze_health_status -> 200 / 500 envelope         *)
(*                                                                         *)
(* Python strings that the code slices (the AZ name, the region) are       *)
(* sequences of characters; the empty sequence stands for a falsy request  *)
(* field (None or '').  Dictionaries are functions, a missing key is a key *)
(* outside the DOMAIN, and dict.get is Get.  f-strings are tuples of their *)
(* literal part and their interpolated values.                             *)
(***************************************************************************)
EXTENDS Integers, Sequences, FiniteSets

VARIABLES
    pc,                 \* position of the control flow
    ec2_client,         \* module global: region the EC2 client is bound to
    client_rebuilt,     \* lambda_handler: the "if current_region != region" branch was taken
    event,              \* lambda_handler: the request
    availability_zone,  \* lambda_handler local
    region,             \* lambda_handler local
    ec2_call,           \* region of the client describe_availability_zones went through
    ec2_resp,           \* what the AZ State Source answered
    health_resp,        \* what the Health Event Source answered
    az_info,            \* check_az_status result / analyze_health_status argument
    health_events,      \* get_az_health_events result / analyze_health_status argument
    severity,           \* analyze_health_status local
    issues,             \* analyze_health_status local
    critical_events,    \* analyze_health_status local
    warning_events,     \* analyze_health_status local
    idx,                \* analyze_health_status: events consumed by the for loop
    health_analysis,    \* analyze_health_status return value
    response            \* lambda_handler return value

vars == <<pc, ec2_client, client_rebuilt, event, availability_zone, region, ec2_call, ec2_resp,
          health_resp, az_info, health_events, severity, issues, critical_events,
          warning_events, idx, health_analysis, response>>

handlerVars == <<ec2_client, client_rebuilt, event, availability_zone, region, ec2_call, ec2_resp,
                 health_resp, response>>

localVars == <<severity, issues, critical_events, warning_events, idx>>

-----------------------------------------------------------------------------
(* Bounds of the model *)

MaxMsgs == 2
MaxEvents == 2

-----------------------------------------------------------------------------
(* Python values *)

None == "None"
Unset == [unset |-> TRUE]
NoAnswer == [kind |-> "none"]

Get(d, k, default) == IF k \in DOMAIN d THEN d[k] ELSE default

SeqsUpTo(S, n) == UNION {[1..k -> S] : k \in 0..n}

MapSeq(F(_), s) == [k \in 1..Len(s) |-> F(s[k])]

Range(s) == {s[k] : k \in 1..Len(s)}

-----------------------------------------------------------------------------
(* The inputs: requests and the answers of the two sources *)

Regions == {<<"u", "s", "1">>, <<"e", "u", "2">>}
AZNames == {<<"u", "s", "1", "a">>, <<"e", "u", "2", "b">>}

Requests ==
    {[availability_zone |-> a, region |-> r] : a \in AZNames \cup {<<>>}, r \in Regions \cup {<<>>}}

MessageSamples == {"scheduled maintenance", "power event"}
MessageSeqs == SeqsUpTo(MessageSamples, MaxMsgs)

\* AvailabilityZones[0] of a describe_availability_zones response
ZoneRecords(zone) ==
    {[ZoneName |-> zone, State |-> s, Messages |-> m] :
        s \in {"available", "impaired"}, m \in MessageSeqs}
    \cup {[ZoneName |-> zone, Messages |-> m] : m \in MessageSeqs}
    \cup {[ZoneName |-> zone, State |-> s] : s \in {"available", "unavailable"}}

Ec2Responses(zone) ==
    {[kind |-> "ok", AvailabilityZones |-> <<z>>] : z \in ZoneRecords(zone)}
    \cup {[kind |-> "ok", AvailabilityZones |-> <<>>],
          [kind |-> "ClientError", code |-> "UnauthorizedOperation"],
          [kind |-> "Exception"]}

HealthEventSamples ==
    {[arn |-> "arn:1", service |-> "EC2", eventTypeCode |-> "AWS_EC2_OPERATIONAL_ISSUE",
      eventTypeCategory |-> "issue", statusCode |-> "open", startTime |-> "t5"],
     [arn |-> "arn:2", service |-> "EBS", eventTypeCode |-> "AWS_EBS_NOTIFICATION",
      eventTypeCategory |-> "accountNotification", statusCode |-> "open"],
     [arn |-> "arn:3", service |-> "EC2", eventTypeCode |-> "AWS_EC2_MAINTENANCE",
      eventTypeCategory |-> "scheduledChange", statusCode |-> "upcoming", startTime |-> "t7"],
     [arn |-> "arn:4", service |-> "RDS", statusCode |-> "open"]}

EventSeqs == SeqsUpTo(HealthEventSamples, MaxEvents)

HealthResponses ==
    {[kind |-> "ok", events |-> es] : es \in EventSeqs}
    \cup {[kind |-> "ClientError", code |-> c] :
             c \in {"SubscriptionRequiredException", "AccessDeniedException"}}
    \cup {[kind |-> "Exception"]}

\* az_info dictionaries analyze_health_status can be handed
AZStates ==
    {[exists |-> x, state |-> s, messages |-> m] :
        x \in BOOLEAN, s \in {"available", "impaired", "unknown", None}, m \in MessageSeqs}

-----------------------------------------------------------------------------
(* analyze_health_status *)

\* the locals of analyze_health_status as one value
Locals ==
    [severity |-> severity, issues |-> issues,
     critical_events |-> critical_events, warning_events |-> warning_events]

FreshLocals ==
    [severity |-> "healthy", issues |-> <<>>,
     critical_events |-> <<>>, warning_events |-> <<>>]

\* mutant: the gate looks at the lifecycle state instead of the existence flag
AZMissing_ByState(az) == az.state = "unknown"

\* if not az_info.get('exists')
AZMissing(az) == ~az.exists

NotFoundVerdict ==
    [status |-> "error", severity |-> "critical",
     message |-> <<"Availability Zone does not exist">>,
     issues |-> << <<"AZ not found">> >>,
     health_events |-> <<>>]

\* mutant: the state rule records the issue and leaves severity alone
StateRule_NoRaise(v, az) ==
    IF az.state # "available"
    THEN [v EXCEPT !.issues = Append(@, <<"AZ state is ", az.state, " (expected: available)">>)]
    ELSE v

\* # Check AZ state
StateRule(v, az) ==
    IF az.state # "available"
    THEN [v EXCEPT !.issues = Append(@, <<"AZ state is ", az.state, " (expected: available)">>),
                   !.severity = "critical"]
    ELSE v

RECURSIVE AppendMessages(_, _)
AppendMessages(iss, msgs) ==
    IF msgs = <<>> THEN iss
    ELSE AppendMessages(Append(iss, <<"AZ message: ", Head(msgs)>>), Tail(msgs))

\* mutant: the message rule sets severity to warning whatever it was
MessageRule_Overwrite(v, az) ==
    IF az.messages # <<>>
    THEN [v EXCEPT !.issues = AppendMessages(@, az.messages),
                   !.severity = "warning"]
    ELSE v

\* # Check for AZ-specific messages
MessageRule(v, az) ==
    IF az.messages # <<>>
    THEN [v EXCEPT !.issues = AppendMessages(@, az.messages),
                   !.severity = IF @ = "healthy" THEN "warning" ELSE @]
    ELSE v

\* datetime.isoformat()
IsoFormat(t) ==
    CASE t = "t5" -> "1970-01-01T00:00:05"
      [] t = "t7" -> "1970-01-01T00:00:07"

IsoOrNone(e, k) == IF k \in DOMAIN e THEN IsoFormat(e[k]) ELSE None

EventInfo(e) ==
    [arn |-> Get(e, "arn", None),
     service |-> Get(e, "service", None),
     event_type_code |-> Get(e, "eventTypeCode", None),
     event_type_category |-> Get(e, "eventTypeCategory", ""),
     status |-> Get(e, "statusCode", None),
     start_time |-> IsoOrNone(e, "startTime"),
     end_time |-> IsoOrNone(e, "endTime"),
     last_updated |-> IsoOrNone(e, "lastUpdatedTime")]

\* mutant: an informational event sets severity to warning whatever it was
EventStep_Downgrade(v, e) ==
    IF Get(e, "eventTypeCategory", "") \in {"issue", "accountNotification"}
    THEN [v EXCEPT !.critical_events = Append(@, EventInfo(e)),
                   !.issues = Append(@, <<"Critical event: ", Get(e, "eventTypeCode", None),
                                          " - ", Get(e, "service", None)>>),
                   !.severity = "critical"]
    ELSE [v EXCEPT !.warning_events = Append(@, EventInfo(e)),
                   !.severity = "warning"]

\* mutant: once severity is critical every later event is filed as critical
EventStep_Sticky(v, e) ==
    IF \/ Get(e, "eventTypeCategory", "") \in {"issue", "accountNotification"}
       \/ v.severity = "critical"
    THEN [v EXCEPT !.critical_events = Append(@, EventInfo(e)),
                   !.issues = Append(@, <<"Critical event: ", Get(e, "eventTypeCode", None),
                                          " - ", Get(e, "service", None)>>),
                   !.severity = "critical"]
    ELSE [v EXCEPT !.warning_events = Append(@, EventInfo(e)),
                   !.severity = IF @ = "healthy" THEN "warning" ELSE @]

\* mutant: only the category issue is critical
EventStep_IssueOnly(v, e) ==
    IF Get(e, "eventTypeCategory", "") = "issue"
    THEN [v EXCEPT !.critical_events = Append(@, EventInfo(e)),
                   !.issues = Append(@, <<"Critical event: ", Get(e, "eventTypeCode", None),
                                          " - ", Get(e, "service", None)>>),
                   !.severity = IF @ # "critical" THEN "critical" ELSE @]
    ELSE [v EXCEPT !.warning_events = Append(@, EventInfo(e)),
                   !.severity = IF @ = "healthy" THEN "warning" ELSE @]

\* one iteration of: for event in health_events
EventStep(v, e) ==
    IF Get(e, "eventTypeCategory", "") \in {"issue", "accountNotification"}
    THEN [v EXCEPT !.critical_events = Append(@, EventInfo(e)),
                   !.issues = Append(@, <<"Critical event: ", Get(e, "eventTypeCode", None),
                                          " - ", Get(e, "service", None)>>),
                   !.severity = IF @ # "critical" THEN "critical" ELSE @]
    ELSE [v EXCEPT !.warning_events = Append(@, EventInfo(e)),
                   !.severity = IF @ = "healthy" THEN "warning" ELSE @]

RECURSIVE EventLoop(_, _)
EventLoop(v, es) ==
    IF es = <<>> THEN v ELSE EventLoop(EventStep(v, Head(es)), Tail(es))

\* mutant: the warning branch is missing
DeriveStatus_NoDegraded(sev) ==
    IF sev = "critical" THEN "unhealthy" ELSE "healthy"

\* # Determine overall status
DeriveStatus(sev) ==
    IF sev = "critical" THEN "unhealthy"
    ELSE IF sev = "warning" THEN "degraded"
    ELSE "healthy"

BuildVerdict(v, az) ==
    [status |-> DeriveStatus(v.severity),
     severity |-> v.severity,
     message |-> <<"AZ is ", DeriveStatus(v.severity)>>,
     issues |-> v.issues,
     critical_events |-> v.critical_events,
     warning_events |-> v.warning_events,
     az_info |-> az]

\* analyze_health_status as a function of its arguments
Analyze(az, es) ==
    IF AZMissing(az) THEN NotFoundVerdict
    ELSE BuildVerdict(EventLoop(MessageRule(StateRule(FreshLocals, az), az), es), az)

SetLocals(v) ==
    /\ severity' = v.severity
    /\ issues' = v.issues
    /\ critical_events' = v.critical_events
    /\ warning_events' = v.warning_events

AnalyzeEnter ==
    /\ pc = "analyze"
    /\ SetLocals(FreshLocals)
    /\ idx' = 0
    /\ IF AZMissing(az_info)
       THEN /\ health_analysis' = NotFoundVerdict
            /\ pc' = "returned"
       ELSE /\ health_analysis' = health_analysis
            /\ pc' = "state_rule"
    /\ UNCHANGED <<handlerVars, az_info, health_events>>

StateRuleStep ==
    /\ pc = "state_rule"
    /\ SetLocals(StateRule(Locals, az_info))
    /\ pc' = "message_rule"
    /\ UNCHANGED <<handlerVars, az_info, health_events, idx, health_analysis>>

MessageRuleStep ==
    /\ pc = "message_rule"
    /\ SetLocals(MessageRule(Locals, az_info))
    /\ pc' = "events"
    /\ UNCHANGED <<handlerVars, az_info, health_events, idx, health_analysis>>

EventLoopStep ==
    /\ pc = "events"
    /\ idx < Len(health_events)
    /\ SetLocals(EventStep(Locals, health_events[idx + 1]))
    /\ idx' = idx + 1
    /\ pc' = "events"
    /\ UNCHANGED <<handlerVars, az_info, health_events, health_analysis>>

DeriveStep ==
    /\ pc = "events"
    /\ idx = Len(health_events)
    /\ health_analysis' = BuildVerdict(Locals, az_info)
    /\ pc' = "returned"
    /\ UNCHANGED <<handlerVars, az_info, health_events, localVars>>

ClassifierNext ==
    \/ AnalyzeEnter
    \/ StateRuleStep
    \/ MessageRuleStep
    \/ EventLoopStep
    \/ DeriveStep

\* analyze_health_status called on its own, on any AZState and event sequence
ClassifierInit ==
    /\ pc = "analyze"
    /\ az_info \in AZStates
    /\ health_events \in EventSeqs
    /\ ec2_client = <<"u", "s", "1">>
    /\ client_rebuilt = FALSE
    /\ event = [availability_zone |-> <<>>, region |-> <<>>]
    /\ availability_zone = <<>>
    /\ region = <<>>
    /\ ec2_call = <<>>
    /\ ec2_resp = NoAnswer
    /\ health_resp = NoAnswer
    /\ severity = "healthy"
    /\ issues = <<>>
    /\ critical_events = <<>>
    /\ warning_events = <<>>
    /\ idx = 0
    /\ health_analysis = Unset
    /\ response = Unset

SpecClassifier == ClassifierInit /\ [][ClassifierNext]_vars

-----------------------------------------------------------------------------
(* check_az_status, get_az_health_events *)

Returned(value) == [raised |-> FALSE, value |-> value]
Raised(exc, msg) == [raised |-> TRUE, exc |-> exc, message |-> msg]

\* mutant: a failed lookup is reported as "AZ not found"
CheckAzStatus_Swallow(r) ==
    IF r.kind = "ok" /\ r.AvailabilityZones # <<>>
    THEN LET z == r.AvailabilityZones[1]
         IN  Returned([exists |-> TRUE,
                       zone_name |-> Get(z, "ZoneName", <<>>),
                       zone_id |-> Get(z, "ZoneId", None),
                       state |-> Get(z, "State", None),
                       region |-> Get(z, "RegionName", None),
                       messages |-> Get(z, "Messages", <<>>),
                       network_border_group |-> Get(z, "NetworkBorderGroup", None)])
    ELSE Returned([exists |-> FALSE, status |-> "unknown", state |-> "unknown",
                   messages |-> <<>>])

\* check_az_status on the provider's answer r
CheckAzStatus(r) ==
    IF r.kind = "ok"
    THEN IF r.AvailabilityZones = <<>>
         THEN Returned([exists |-> FALSE, status |-> "unknown", state |-> "unknown",
                        messages |-> <<>>])
         ELSE LET z == r.AvailabilityZones[1]
              IN  Returned([exists |-> TRUE,
                            zone_name |-> Get(z, "ZoneName", <<>>),
                            zone_id |-> Get(z, "ZoneId", None),
                            state |-> Get(z, "State", None),
                            region |-> Get(z, "RegionName", None),
                            messages |-> Get(z, "Messages", <<>>),
                            network_border_group |-> Get(z, "NetworkBorderGroup", None)])
    ELSE IF r.kind = "ClientError"
    THEN Raised("ClientError", r.code)
    ELSE Raised("Exception", "error")

\* mutant: every ClientError of the Health API is re-raised
GetAzHealthEvents_Reraise(r) ==
    IF r.kind = "ok"
    THEN Returned(r.events)
    ELSE IF r.kind = "ClientError"
    THEN Raised("ClientError", r.code)
    ELSE Returned(<<>>)

\* get_az_health_events on the provider's answer r
GetAzHealthEvents(r) ==
    IF r.kind = "ok"
    THEN Returned(r.events)
    ELSE IF r.kind = "ClientError"
    THEN IF r.code = "SubscriptionRequiredException"
         THEN Returned(<<>>)
         ELSE Raised("ClientError", r.code)
    ELSE Returned(<<>>)

-----------------------------------------------------------------------------
(* lambda_handler *)

\* region = event.get('region'); if not region: region = availability_zone[:-1]
InferRegion(ev) ==
    IF ev.region # <<>> THEN ev.region
    ELSE SubSeq(ev.availability_zone, 1, Len(ev.availability_zone) - 1)

\* mutant: the client created at import time is never replaced
Ec2ClientFor_Keep(current_region, r) == current_region

\* # Reinitialize EC2 client with correct region if needed
Ec2ClientFor(current_region, r) ==
    IF current_region # r THEN r ELSE current_region

\* except ClientError / except Exception
ErrorEnvelope(out) ==
    [statusCode |-> 500,
     body |-> [error |-> IF out.exc = "ClientError" THEN "AWS API error" ELSE "Internal error",
               message |-> out.message]]

BadRequest ==
    [statusCode |-> 400,
     body |-> [error |-> "Missing required parameter: availability_zone"]]

OkResponse(az, r, analysis) ==
    [statusCode |-> 200,
     body |-> [availability_zone |-> az, region |-> r, health |-> analysis]]

\* a new invocation: its locals are fresh, the global ec2_client is kept
Invoke ==
    /\ pc \in {"idle", "done"}
    /\ \E ev \in Requests :
        /\ event' = ev
        /\ availability_zone' = ev.availability_zone
        /\ IF ev.availability_zone = <<>>
           THEN /\ response' = BadRequest
                /\ region' = <<>>
                /\ ec2_client' = ec2_client
                /\ client_rebuilt' = FALSE
                /\ pc' = "done"
           ELSE /\ response' = Unset
                /\ region' = InferRegion(ev)
                /\ ec2_client' = Ec2ClientFor(ec2_client, InferRegion(ev))
                /\ client_rebuilt' = (ec2_client # InferRegion(ev))
                /\ pc' = "check_az"
    /\ ec2_call' = <<>>
    /\ ec2_resp' = NoAnswer
    /\ health_resp' = NoAnswer
    /\ az_info' = Unset
    /\ health_events' = <<>>
    /\ SetLocals(FreshLocals)
    /\ idx' = 0
    /\ health_analysis' = Unset

\* az_info = check_az_status(availability_zone)
CheckAz ==
    /\ pc = "check_az"
    /\ \E r \in Ec2Responses(availability_zone) :
        LET out == CheckAzStatus(r)
        IN  /\ ec2_resp' = r
            /\ ec2_call' = ec2_client
            /\ IF out.raised
               THEN /\ response' = ErrorEnvelope(out)
                    /\ az_info' = az_info
                    /\ pc' = "done"
               ELSE /\ response' = response
                    /\ az_info' = out.value
                    /\ pc' = "get_events"
    /\ UNCHANGED <<ec2_client, client_rebuilt, event, availability_zone, region, health_resp,
                   health_events, localVars, health_analysis>>

\* health_events = get_az_health_events(region, availability_zone)
GetEvents ==
    /\ pc = "get_events"
    /\ \E r \in HealthResponses :
        LET out == GetAzHealthEvents(r)
        IN  /\ health_resp' = r
            /\ IF out.raised
               THEN /\ response' = ErrorEnvelope(out)
                    /\ health_events' = health_events
                    /\ pc' = "done"
               ELSE /\ response' = response
                    /\ health_events' = out.value
                    /\ pc' = "analyze"
    /\ UNCHANGED <<ec2_client, client_rebuilt, event, availability_zone, region, ec2_call, ec2_resp,
                   az_info, localVars, health_analysis>>

\* the 200 envelope around the verdict
Respond ==
    /\ pc = "returned"
    /\ response' = OkResponse(availability_zone, region, health_analysis)
    /\ pc' = "done"
    /\ UNCHANGED <<ec2_client, client_rebuilt, event, availability_zone, region, ec2_call, ec2_resp,
                   health_resp, az_info, health_events, localVars, health_analysis>>

Init ==
    /\ pc = "idle"
    /\ ec2_client \in Regions
    /\ client_rebuilt = FALSE
    /\ event = [availability_zone |-> <<>>, region |-> <<>>]
    /\ availability_zone = <<>>
    /\ region = <<>>
    /\ ec2_call = <<>>
    /\ ec2_resp = NoAnswer
    /\ health_resp = NoAnswer
    /\ az_info = Unset
    /\ health_events = <<>>
    /\ severity = "healthy"
    /\ issues = <<>>
    /\ critical_events = <<>>
    /\ warning_events = <<>>
    /\ idx = 0
    /\ health_analysis = Unset
    /\ response = Unset

Next ==
    \/ Invoke
    \/ CheckAz
    \/ GetEvents
    \/ AnalyzeEnter
    \/ StateRuleStep
    \/ MessageRuleStep
    \/ EventLoopStep
    \/ DeriveStep
    \/ Respond

Spec == Init /\ [][Next]_vars

-----------------------------------------------------------------------------
(* Properties *)

\* the order healthy < warning < critical
Rank(sev) ==
    CASE sev = "healthy" -> 0
      [] sev = "warning" -> 1
      [] sev = "critical" -> 2

CriticalCategories == {"issue", "accountNotification"}

IsCriticalEvent(e) == Get(e, "eventTypeCategory", "") \in CriticalCategories
IsOtherEvent(e) == ~IsCriticalEvent(e)

StateIssue(az) == <<"AZ state is ", az.state, " (expected: available)">>
MessageIssue(m) == <<"AZ message: ", m>>
EventIssue(e) == <<"Critical event: ", Get(e, "eventTypeCode", None), " - ", Get(e, "service", None)>>

\* all the orderings of the sequence s
Reorderings(s) ==
    {[k \in 1..Len(s) |-> s[f[k]]] :
        f \in {g \in [1..Len(s) -> 1..Len(s)] : \A a, b \in 1..Len(s) : g[a] = g[b] => a = b}}

Classified == pc = "returned" /\ az_info.exists

\* C1: an AZState with exists = false gets the verdict error / critical /
\* ["AZ not found"] with no event in any bucket, whatever its other fields and
\* whatever the events; no lifecycle, message or event rule runs or contributes.
C1_ExistenceShortCircuit ==
    ~az_info.exists =>
        /\ pc \in {"analyze", "returned"}
        /\ pc = "returned" =>
            /\ health_analysis.status = "error"
            /\ health_analysis.severity = "critical"
            /\ health_analysis.issues = << <<"AZ not found">> >>
            /\ health_analysis.health_events = <<>>
            /\ DOMAIN health_analysis \cap {"critical_events", "warning_events"} = {}
            /\ issues = <<>>
            /\ critical_events = <<>>
            /\ warning_events = <<>>
            /\ idx = 0

C1_Witness ==
    /\ pc = "returned"
    /\ ~az_info.exists
    /\ az_info.state = "impaired"
    /\ az_info.messages # <<>>
    /\ \E k \in 1..Len(health_events) : IsCriticalEvent(health_events[k])
    /\ health_analysis.status = "error"

\* C2: for an existing AZ the status is unhealthy exactly when the final
\* severity is critical, degraded exactly when warning, healthy exactly when
\* healthy; the status error is returned only when exists = false.
C2_StatusDerivation ==
    pc = "returned" =>
        /\ az_info.exists =>
            /\ health_analysis.severity = severity
            /\ health_analysis.severity \in {"healthy", "warning", "critical"}
            /\ health_analysis.status = "unhealthy" <=> health_analysis.severity = "critical"
            /\ health_analysis.status = "degraded" <=> health_analysis.severity = "warning"
            /\ health_analysis.status = "healthy" <=> health_analysis.severity = "healthy"
        /\ health_analysis.status = "error" <=> ~az_info.exists

C2_Witness ==
    /\ Classified
    /\ severity = "warning"
    /\ health_analysis.status = "degraded"

SeverityStep ==
    pc \in {"state_rule", "message_rule", "events"} =>
        /\ Rank(severity') >= Rank(severity)
        /\ (pc = "events" /\ idx < Len(health_events) /\ IsOtherEvent(health_events[idx + 1])) =>
            /\ warning_events' = Append(warning_events, EventInfo(health_events[idx + 1]))
            /\ critical_events' = critical_events
            /\ severity = "critical" => severity' = "critical"

\* C3: severity never decreases across the lifecycle-state rule, the
\* operator-message rule and each event step; an informational event met
\* when severity is already critical leaves it critical and is still appended
\* to the warning bucket.
C3_MonotonicSeverity == [][SeverityStep]_vars

C3_Witness ==
    /\ pc = "events"
    /\ az_info.exists
    /\ az_info.state # "available"
    /\ idx = Len(health_events)
    /\ idx > 0
    /\ IsOtherEvent(health_events[idx])
    /\ Len(warning_events) = idx
    /\ severity = "critical"

\* C4: every reordering of the events gives the same severity, the same
\* status and the same critical_events and warning_events as sets.
C4_OrderIndependence ==
    Classified =>
        \A p \in Reorderings(health_events) :
            LET other == Analyze(az_info, p)
            IN  /\ other.severity = health_analysis.severity
                /\ other.status = health_analysis.status
                /\ Range(other.critical_events) = Range(health_analysis.critical_events)
                /\ Range(other.warning_events) = Range(health_analysis.warning_events)

C4_Witness ==
    /\ Classified
    /\ az_info.state = "available"
    /\ az_info.messages = <<>>
    /\ Len(health_events) = 2
    /\ IsOtherEvent(health_events[1])
    /\ IsCriticalEvent(health_events[2])
    /\ Cardinality(Reorderings(health_events)) = 2

\* C5: each event is summarized once, in the bucket its own category decides:
\* issue / accountNotification in critical_events with one issue naming its
\* code and service and a critical / unhealthy verdict, anything else (or no
\* category) in warning_events with no issue; the bucket sizes add up to the
\* number of events.
C5_EventPartition ==
    Classified =>
        LET crit == SelectSeq(health_events, IsCriticalEvent)
            other == SelectSeq(health_events, IsOtherEvent)
            before == Len(health_analysis.issues) - Len(crit)
        IN  /\ health_analysis.critical_events = MapSeq(EventInfo, crit)
            /\ health_analysis.warning_events = MapSeq(EventInfo, other)
            /\ Len(health_analysis.critical_events) + Len(health_analysis.warning_events)
                  = Len(health_events)
            /\ before = (IF az_info.state # "available" THEN 1 ELSE 0) + Len(az_info.messages)
            /\ SubSeq(health_analysis.issues, before + 1, Len(health_analysis.issues))
                  = MapSeq(EventIssue, crit)
            /\ crit # <<>> =>
                /\ health_analysis.severity = "critical"
                /\ health_analysis.status = "unhealthy"

C5_Witness ==
    /\ Classified
    /\ Len(health_events) = 2
    /\ Get(health_events[1], "eventTypeCategory", "") = "accountNotification"
    /\ "eventTypeCategory" \notin DOMAIN health_events[2]
    /\ Len(health_analysis.critical_events) = 1
    /\ Len(health_analysis.warning_events) = 1

\* C6: messages on an available AZ with no events give warning / degraded
\* and exactly one issue per message, quoting it, in message order; when the
\* lifecycle rule already made severity critical the message issues follow
\* the state issue and severity stays critical.
C6_OperatorMessages ==
    (Classified /\ az_info.messages # <<>>) =>
        /\ (az_info.state = "available" /\ health_events = <<>>) =>
            /\ health_analysis.severity = "warning"
            /\ health_analysis.status = "degraded"
            /\ health_analysis.issues = MapSeq(MessageIssue, az_info.messages)
        /\ az_info.state # "available" =>
            /\ health_analysis.severity = "critical"
            /\ health_analysis.issues[1] = StateIssue(az_info)
            /\ SubSeq(health_analysis.issues, 2, 1 + Len(az_info.messages))
                  = MapSeq(MessageIssue, az_info.messages)

C6_Witness ==
    /\ Classified
    /\ az_info.state = "available"
    /\ health_events = <<>>
    /\ az_info.messages = <<"scheduled maintenance", "power event">>
    /\ health_analysis.status = "degraded"

\* C7: an existing, available AZ with no messages and no events is healthy /
\* healthy with no issues and empty buckets, and the verdict is healthy only
\* then.
C7_HealthyBaseline ==
    Classified =>
        LET baseline == /\ az_info.state = "available"
                        /\ az_info.messages = <<>>
                        /\ health_events = <<>>
        IN  /\ health_analysis.status = "healthy" <=> baseline
            /\ baseline =>
                /\ health_analysis.severity = "healthy"
                /\ health_analysis.issues = <<>>
                /\ health_analysis.critical_events = <<>>
                /\ health_analysis.warning_events = <<>>

C7_Witness ==
    /\ Classified
    /\ az_info.state = "available"
    /\ az_info.messages = <<>>
    /\ health_events = <<>>
    /\ health_analysis.status = "healthy"

-----------------------------------------------------------------------------
(* Properties of the handler *)

Ec2Answered == ec2_resp.kind = "ok"
Ec2NotFound == ec2_resp.kind = "ok" /\ ec2_resp.AvailabilityZones = <<>>
Ec2Failed == ec2_resp.kind \in {"ClientError", "Exception"}

HealthDenied == health_resp.kind = "ClientError"
HealthSubscriptionRequired ==
    health_resp.kind = "ClientError" /\ health_resp.code = "SubscriptionRequiredException"
HealthOtherClientError ==
    health_resp.kind = "ClientError" /\ health_resp.code # "SubscriptionRequiredException"

Returns200With(verdict) ==
    /\ response.statusCode = 200
    /\ response.body.health = verdict

Returns500 ==
    /\ response.statusCode = 500
    /\ "health" \notin DOMAIN response.body

\* C8 as stated: whenever the AZ-state lookup succeeded and the Health Event
\* Source denied access (subscription, entitlement or permission), the
\* request ends in a 200 result carrying the classification of the AZState
\* with no events.
C8_DenialNeverFails ==
    (pc = "done" /\ Ec2Answered /\ HealthDenied) =>
        Returns200With(Analyze(az_info, <<>>))

\* C8 amended: when the AZ-state lookup succeeded and the Health Event Source
\* answers SubscriptionRequiredException, the event lookup returns the empty
\* sequence, the classifier runs and the handler returns 200 with the
\* classification of the AZState with no events; any other ClientError of the
\* Health Event Source is re-raised and the handler returns the 500 envelope
\* "AWS API error" without running the classifier.
C8_SubscriptionDegrades ==
    Ec2Answered =>
        /\ HealthSubscriptionRequired =>
            /\ health_events = <<>>
            /\ pc # "done" => pc \in {"analyze", "state_rule", "message_rule", "events", "returned"}
            /\ pc = "done" => Returns200With(Analyze(az_info, <<>>))
        /\ HealthOtherClientError =>
            /\ pc = "done"
            /\ Returns500
            /\ response.body.error = "AWS API error"
            /\ health_analysis = Unset

C8_Witness ==
    /\ pc = "done"
    /\ Ec2Answered
    /\ az_info.exists
    /\ az_info.state = "impaired"
    /\ HealthSubscriptionRequired
    /\ response.statusCode = 200
    /\ response.body.health.status = "unhealthy"

\* C9 as stated: an AZ the provider has no record of gives exists = false and
\* a 200 result with the error verdict; any other failure of the AZ-state
\* lookup gives the 500 envelope with no verdict, and neither the event lookup
\* nor the classifier runs.
C9_FailFast ==
    /\ Ec2NotFound =>
        /\ ~az_info.exists
        /\ pc = "done" => Returns200With(NotFoundVerdict)
    /\ Ec2Failed =>
        /\ pc = "done"
        /\ Returns500
        /\ health_resp = NoAnswer
        /\ health_analysis = Unset

\* C9 amended: an AZ the provider has no record of gives exists = false
\* without raising, and the request then ends in a 200 result with the error
\* verdict unless the event lookup re-raises a ClientError other than
\* SubscriptionRequiredException, which ends it in the 500 envelope; any
\* failure of the AZ-state lookup itself gives the 500 envelope with no
\* verdict, and neither the event lookup nor the classifier runs.
C9_FailFastUnlessEventsRaise ==
    /\ Ec2NotFound =>
        /\ ~az_info.exists
        /\ pc = "done" =>
            IF HealthOtherClientError
            THEN Returns500 /\ health_analysis = Unset
            ELSE Returns200With(NotFoundVerdict) /\ response.body.health.status = "error"
    /\ Ec2Failed =>
        /\ pc = "done"
        /\ Returns500
        /\ response.body.error =
              (IF ec2_resp.kind = "ClientError" THEN "AWS API error" ELSE "Internal error")
        /\ health_resp = NoAnswer
        /\ az_info = Unset
        /\ health_analysis = Unset

C9_Witness ==
    /\ pc = "done"
    /\ Ec2NotFound
    /\ health_resp.kind = "ok"
    /\ health_resp.events # <<>>
    /\ response.statusCode = 200
    /\ response.body.health.status = "error"

\* the region the request asks for: the explicit one, else the AZ name less
\* its last character
EffectiveRegion(ev) ==
    IF ev.region # <<>> THEN ev.region
    ELSE [k \in 1..(Len(ev.availability_zone) - 1) |-> ev.availability_zone[k]]

\* C10: whatever ran before on the process, the AZ-state lookup of an
\* invocation goes through an EC2 client bound to the invocation's effective
\* region, and a 200 result is the one its own request and the two sources'
\* answers determine.
C10_SelfContained ==
    /\ ec2_resp # NoAnswer =>
        /\ ec2_call = EffectiveRegion(event)
        /\ ec2_client = EffectiveRegion(event)
    /\ (pc = "done" /\ response.statusCode = 200) =>
        response = OkResponse(event.availability_zone, EffectiveRegion(event),
                              Analyze(CheckAzStatus(ec2_resp).value,
                                      GetAzHealthEvents(health_resp).value))

C10_Witness ==
    /\ pc = "done"
    /\ client_rebuilt
    /\ event.region = <<>>
    /\ ec2_call = <<"e", "u", "2">>
    /\ response.statusCode = 200
    /\ response.body.health.status = "healthy"

=============================================================================
